---- MODULE Spec2Model ----
(***************************************************************************)
(* A model of the 3d-heat-map viewers: the 2D grid (HeatMap), the shader   *)
(* viewer (HeatMapShader: ShaderPlane and InstancedCubes), the hybrid      *)
(* viewer (HeatMapHybrid: PatternGenerator and Cubes) and the cube viewer  *)
(* (HeatMap3D: Grid and Cubes).  One viewer is mounted per behaviour.      *)
(*                                                                         *)
(* Numbers.  JavaScript numbers and GLSL floats are modelled in fixed      *)
(* point: a real r is the integer r * Scale.  Times, speeds, intensities,  *)
(* angles and distances are all in this unit; grid indices (col, row, i)   *)
(* and counts are plain integers.  Math.sin, Math.atan2 and Math.sqrt are  *)
(* integer approximations whose ranges are those of the real functions.    *)
(***************************************************************************)
EXTENDS Integers, Sequences, FiniteSets, TLC

(***************************************************************************)
(* Bounds of the model.                                                    *)
(***************************************************************************)
\* the 2D grid is HeatMapColumns x HeatMapRows cells (52 x 20 in the source)
HeatMapColumns == 5
HeatMapRows == 3
\* rows of the "low" preset; every preset is k * <<2 * PresetRows, PresetRows>>
PresetRows == 1
\* the 2D animation loop stops advancing once timeRef has reached MaxTime
MaxTime == 5200
\* the canvas viewers stop rendering once the canvas clock has reached MaxClock
MaxClock == 100
\* in a canvas viewer at most MaxEvents control presses and timer callbacks
\* happen before the clock reaches MaxClock
MaxEvents == 2

(***************************************************************************)
(* Fixed-point arithmetic.                                                 *)
(***************************************************************************)
Scale == 10 * 10 * 10

\* Math.PI
Pi == 3142

TwoPi == 2 * Pi

Abs(x) == IF x < 0 THEN -x ELSE x

Min(a, b) == IF a < b THEN a ELSE b

Max(a, b) == IF a > b THEN a ELSE b

\* x * y of two fixed-point numbers (rounded down)
Mul(x, y) == (x * y) \div Scale

\* Math.floor of a fixed-point number, as an integer
Floor(x) == x \div Scale

\* 2^n modulo m
RECURSIVE Pow2Mod(_, _)
Pow2Mod(n, m) == IF n = 0 THEN 1 % m ELSE (2 * Pow2Mod(n - 1, m)) % m

\* the exponent e of a positive value a: 2^e <= a / Scale < 2^(e + 1)
RECURSIVE Binade(_)
Binade(a) ==
    IF a >= 2 * Scale THEN Binade(a \div 2) + 1
    ELSE IF a < Scale THEN Binade(2 * a) - 1
    ELSE 0

\* an element read back from a Float32Array: the store rounds the value to the
\* nearest number with a 24-bit significand (ties to even); the result is
\* given in whole multiples of 1 / Scale, rounded down, so a value that is not
\* a float32 number and whose nearest float32 number is the smaller one reads
\* as one unit less
Fround(v) ==
    IF v = 0 THEN 0
    ELSE LET a == Abs(v)
             bits == 23 - Binade(a)
             below == ((a % Scale) * Pow2Mod(bits, Scale)) % Scale
             tie == ((a % (2 * Scale)) * Pow2Mod(bits, 2 * Scale)) % (2 * Scale)
             down == below # 0 /\ (below * 2 < Scale \/ tie * 2 = Scale)
             up == below # 0 /\ ~down
         IN  IF v > 0 THEN (IF down THEN v - 1 ELSE v)
             ELSE (IF up THEN v - 1 ELSE v)

\* the JavaScript remainder a % b (b # 0): truncated, with the sign of a
JsRem(a, b) == IF a >= 0 THEN a % Abs(b) ELSE -((-a) % Abs(b))

\* the GLSL mod(a, b) = a - b * floor(a / b) (b > 0): never negative
GlslMod(a, b) == a % b

RECURSIVE SqrtIter(_, _, _)
SqrtIter(n, lo, hi) ==
    IF lo >= hi THEN lo
    ELSE LET mid == (lo + hi + 1) \div 2
         IN  IF mid * mid <= n THEN SqrtIter(n, mid, hi)
                               ELSE SqrtIter(n, lo, mid - 1)

\* Math.sqrt(dx * dx + dy * dy) of two fixed-point numbers, and GLSL length
Hypot(dx, dy) == SqrtIter(dx * dx + dy * dy, 0, Abs(dx) + Abs(dy))

\* sin on [0, Pi]: 16 r (Pi - r) / (5 Pi^2 - 4 r (Pi - r)), in [0, Scale]
SinHalf(r) ==
    LET p == r * (Pi - r)
    IN  (16 * p) \div ((5 * Pi * Pi - 4 * p) \div Scale)

\* Math.sin and GLSL sin, in [-Scale, Scale]
Sin(x) ==
    LET r == x % TwoPi
    IN  IF r <= Pi THEN SinHalf(r) ELSE -SinHalf(r - Pi)

\* atan of a ratio z in [0, Scale]: z (Pi/4 + 0.273 (1 - z))
AtanUnit(z) == (z * (785 * Scale + 273 * (Scale - z))) \div (Scale * Scale)

\* Math.atan2(y, x) and GLSL atan(y, x), in (-Pi, Pi]
Atan2(y, x) ==
    IF x = 0 /\ y = 0 THEN 0
    ELSE LET ax == Abs(x)
             ay == Abs(y)
             a0 == AtanUnit((Min(ax, ay) * Scale) \div Max(ax, ay))
             a1 == IF ay > ax THEN (Pi \div 2) - a0 ELSE a0
             a2 == IF x < 0 THEN Pi - a1 ELSE a1
         IN  IF y < 0 THEN -a2 ELSE a2

(***************************************************************************)
(* Pattern kinds and colour themes.                                        *)
(***************************************************************************)
PatternType == {"waves", "ripples", "gradient", "checkerboard", "spiral"}

ColorTheme == {"github", "heat", "ocean", "rainbow", "monochrome", "purple"}

\* a hex colour string, and the template string `hsl(${h}, ${s}%, ${l}%)`
Hex(s) == <<s>>

Hsl(h, s, l) == <<"hsl", h, s, l>>

(***************************************************************************)
(* The pattern formulas.  time is a fixed-point number; col, row, columns  *)
(* and rows are integers.                                                  *)
(***************************************************************************)
\* columns / 2 and rows / 2
Center(n) == (n * Scale) \div 2

\* Math.sin(col * 0.2 + time * 0.1) + Math.sin(row * 0.2 + time * 0.1)
WavesValue(time, col, row) ==
    Sin(col * 200 + Mul(time, 100)) + Sin(row * 200 + Mul(time, 100))

\* Math.sin(distance * 0.5 - time * 0.2), distance from the grid's centre
RippleValue(time, col, row, columns, rows) ==
    LET dx == col * Scale - Center(columns)
        dy == row * Scale - Center(rows)
        distance == Hypot(dx, dy)
    IN  Sin(Mul(distance, 500) - Mul(time, 200))

\* a gradient whose time term carries a frequency factor, as the shader's does:
\* (col + row + time * 5.0) % columns
GradientValueScaledTime(time, col, row, columns) ==
    JsRem(col * Scale + row * Scale + time * 5, columns * Scale)

\* (col + row + time) % columns
GradientValue(time, col, row, columns) ==
    JsRem(col * Scale + row * Scale + time, columns * Scale)

\* a checkerboard of the opposite polarity, as the shader's is:
\* (col + row + Math.floor(time / 5)) % 2 === 1
IsEvenInverted(time, col, row) == JsRem(col + row + Floor(time \div 5), 2) = 1

\* const isEven = (col + row + Math.floor(time / 5)) % 2 === 0
IsEven(time, col, row) == JsRem(col + row + Floor(time \div 5), 2) = 0

\* a checkerboard whose dark cells are dim rather than empty: isEven ? 10 : 1
CheckerCountDim(time, col, row) == IF IsEven(time, col, row) THEN 10 ELSE 1

\* count = isEven ? 10 : 0
CheckerCount(time, col, row) == IF IsEven(time, col, row) THEN 10 ELSE 0

\* value = isEven ? 1 : 0
CheckerValue(time, col, row) == IF IsEven(time, col, row) THEN Scale ELSE 0

\* (angle + spiralDistance * 0.1 + time * 0.05) % (2 * Math.PI)
SpiralValue(time, col, row, columns, rows) ==
    LET spiralDx == col * Scale - Center(columns)
        spiralDy == row * Scale - Center(rows)
        spiralDistance == Hypot(spiralDx, spiralDy)
        angle == Atan2(spiralDy, spiralDx)
    IN  JsRem(angle + Mul(spiralDistance, 100) + Mul(time, 50), TwoPi)

\* the switch of HeatMap.generatePattern: the count of one cell
patternCount(patternType, time, col, row, columns, rows) ==
    CASE patternType = "waves" ->
           Floor(((WavesValue(time, col, row) + 2 * Scale) \div 4) * 10)
      [] patternType = "ripples" ->
           Floor(((RippleValue(time, col, row, columns, rows) + Scale) \div 2) * 10)
      [] patternType = "gradient" ->
           Floor((GradientValue(time, col, row, columns) \div columns) * 10)
      [] patternType = "checkerboard" ->
           CheckerCount(time, col, row)
      [] patternType = "spiral" ->
           Floor(((SpiralValue(time, col, row, columns, rows) * Scale) \div TwoPi) * 10)
      [] OTHER -> 0

\* the same switch in PatternGenerator.generatePattern: the intensity of one cell
patternValue(patternType, time, col, row, columns, rows) ==
    CASE patternType = "waves" ->
           (WavesValue(time, col, row) + 2 * Scale) \div 4
      [] patternType = "ripples" ->
           (RippleValue(time, col, row, columns, rows) + Scale) \div 2
      [] patternType = "gradient" ->
           GradientValue(time, col, row, columns) \div columns
      [] patternType = "checkerboard" ->
           CheckerValue(time, col, row)
      [] patternType = "spiral" ->
           (SpiralValue(time, col, row, columns, rows) * Scale) \div TwoPi
      [] OTHER -> 0

(***************************************************************************)
(* The colour mappers.                                                     *)
(***************************************************************************)
\* tables in which ocean's fourth colour repeats its third
ThemeTableRepeated(theme) ==
    CASE theme = "github" -> <<"#ebedf0", "#9be9a8", "#40c463", "#30a14e", "#216e39">>
      [] theme = "heat"   -> <<"#f8f9fa", "#ffccbc", "#ff8a65", "#e64a19", "#bf360c">>
      [] theme = "ocean"  -> <<"#f5f5f5", "#bbdefb", "#64b5f6", "#64b5f6", "#0d47a1">>
      [] theme = "purple" -> <<"#f3e5f5", "#ce93d8", "#9c27b0", "#6a1b9a", "#4a148c">>

\* the five colours of a stepped theme, lightest first
ThemeTable(theme) ==
    CASE theme = "github" -> <<"#ebedf0", "#9be9a8", "#40c463", "#30a14e", "#216e39">>
      [] theme = "heat"   -> <<"#f8f9fa", "#ffccbc", "#ff8a65", "#e64a19", "#bf360c">>
      [] theme = "ocean"  -> <<"#f5f5f5", "#bbdefb", "#64b5f6", "#1976d2", "#0d47a1">>
      [] theme = "purple" -> <<"#f3e5f5", "#ce93d8", "#9c27b0", "#6a1b9a", "#4a148c">>

\* thresholds compared with < where the source has <=
SteppedStrict(count, theme) ==
    IF count = 0 THEN Hex(ThemeTable(theme)[1])
    ELSE IF count < 2 THEN Hex(ThemeTable(theme)[2])
    ELSE IF count < 5 THEN Hex(ThemeTable(theme)[3])
    ELSE IF count < 8 THEN Hex(ThemeTable(theme)[4])
    ELSE Hex(ThemeTable(theme)[5])

\* if (count === 0) .. if (count <= 2) .. if (count <= 5) .. if (count <= 8) .. return
Stepped(count, theme) ==
    IF count = 0 THEN Hex(ThemeTable(theme)[1])
    ELSE IF count <= 2 THEN Hex(ThemeTable(theme)[2])
    ELSE IF count <= 5 THEN Hex(ThemeTable(theme)[3])
    ELSE IF count <= 8 THEN Hex(ThemeTable(theme)[4])
    ELSE Hex(ThemeTable(theme)[5])

\* the switch on the theme, shared by the three themed copies of getColor
ThemeSwitch(count, theme) ==
    CASE theme \in {"github", "heat", "ocean", "purple"} -> Stepped(count, theme)
      [] theme = "rainbow" -> Hsl((count * 300) \div 10, 80, 60)
      [] theme = "monochrome" -> Hsl(0, 0, 90 - count * 8)
      [] OTHER -> Hex("#ffffff")

\* HeatMap.getColor: GitHub greens only
getColor2D(count) == Stepped(count, "github")

\* getColor of HeatMapHybrid: safeCount = max(0, min(10, floor(count)))
getColorHybrid(count, theme) == ThemeSwitch(Max(0, Min(10, count)), theme)

\* getColor of HeatMapShader: the count is used as given
getColorShader(count, theme) == ThemeSwitch(count, theme)

\* getColor of HeatMap3D: the count is used as given
getColor3D(count, theme) == ThemeSwitch(count, theme)

\* a label whose thresholds are compared with < where the source has <=
getIntensityLabelStrict(count) ==
    IF count = 0 THEN "No activity"
    ELSE IF count < 2 THEN "Low activity"
    ELSE IF count < 5 THEN "Medium activity"
    ELSE IF count < 8 THEN "High activity"
    ELSE "Very high activity"

\* getIntensityLabel of HeatMap and of HeatMap3D
getIntensityLabel(count) ==
    IF count = 0 THEN "No activity"
    ELSE IF count <= 2 THEN "Low activity"
    ELSE IF count <= 5 THEN "Medium activity"
    ELSE IF count <= 8 THEN "High activity"
    ELSE "Very high activity"

\* the updater of the interval timer: patterns[(indexOf(prev) + 1) % length]
patterns == <<"waves", "ripples", "gradient", "checkerboard", "spiral">>

indexOf(seq, x) ==
    IF \E k \in 1..Len(seq) : seq[k] = x
    THEN (CHOOSE k \in 1..Len(seq) : seq[k] = x /\ \A j \in 1..(k - 1) : seq[j] # x) - 1
    ELSE -1

\* an updater that reads the pattern its effect closed over at the mount
\* ("waves") instead of prevPattern
cycleUpdaterStale(prevPattern) ==
    LET currentIndex == indexOf(patterns, "waves")
        nextIndex == (currentIndex + 1) % Len(patterns)
    IN  patterns[nextIndex + 1]

\* an updater that steps to the next entry without wrapping: past the last
\* entry patterns[nextIndex] is undefined
cycleUpdaterNoWrap(prevPattern) ==
    LET currentIndex == indexOf(patterns, prevPattern)
        nextIndex == currentIndex + 1
    IN  IF nextIndex + 1 \in DOMAIN patterns THEN patterns[nextIndex + 1] ELSE "undefined"

\* an updater that steps two entries ahead
cycleUpdaterSkip(prevPattern) ==
    LET currentIndex == indexOf(patterns, prevPattern)
        nextIndex == (currentIndex + 2) % Len(patterns)
    IN  patterns[nextIndex + 1]

cycleUpdater(prevPattern) ==
    LET currentIndex == indexOf(patterns, prevPattern)
        nextIndex == (currentIndex + 1) % Len(patterns)
    IN  patterns[nextIndex + 1]

(***************************************************************************)
(* The fragment shader of createShaderMaterial (GLSL).                     *)
(***************************************************************************)
\* the uv of the fragment at the origin corner of cell (col, row): col / columns
\* and row / rows, rounded up so that uv * resolution is not below (col, row)
vUv(col, row, resolution) ==
    <<(col * Scale + resolution[1] - 1) \div resolution[1],
      (row * Scale + resolution[2] - 1) \div resolution[2]>>

\* float getPatternValue(vec2 pos, int patternType, float time)
getPatternValue(pos, patternType, time, resolution) ==
    LET scaledPos == <<pos[1] * resolution[1], pos[2] * resolution[2]>>
        center == <<Center(resolution[1]), Center(resolution[2])>>
        centered == <<scaledPos[1] - center[1], scaledPos[2] - center[2]>>
        dist == Hypot(centered[1], centered[2])
    IN  CASE patternType = 0 ->
               LET value == Sin(Mul(scaledPos[1], 200) + time)
                            + Sin(Mul(scaledPos[2], 200) + time)
               IN  (value + 2 * Scale) \div 4
          [] patternType = 1 ->
               LET value == Sin(Mul(dist, 500) - time)
               IN  (value + Scale) \div 2
          [] patternType = 2 ->
               GlslMod(scaledPos[1] + scaledPos[2] + time * 5,
                       resolution[1] * Scale) \div resolution[1]
          [] patternType = 3 ->
               LET timeOffset == Floor(Mul(time, 200))
                   isEven == GlslMod(Floor(scaledPos[1]) + Floor(scaledPos[2])
                                     + timeOffset, 2)
               IN  isEven * Scale
          [] patternType = 4 ->
               LET angle == Atan2(centered[2], centered[1])
               IN  (GlslMod(angle + Mul(dist, 100) + Mul(time, 500), 6280) * Scale)
                   \div 6280
          [] OTHER -> Scale \div 2

\* vec3 getThemeColor(float value): the index into colors[5]
getThemeColor(value) ==
    IF value < 50 THEN 0
    ELSE IF value < 250 THEN 1
    ELSE IF value < 500 THEN 2
    ELSE IF value < 750 THEN 3
    ELSE 4

\* patternIndex of createShaderMaterial
patternIndex(p) ==
    CASE p = "waves" -> 0
      [] p = "ripples" -> 1
      [] p = "gradient" -> 2
      [] p = "checkerboard" -> 3
      [] p = "spiral" -> 4

\* a table sampled at [0, 3, 5, 8, 10], two of its counts in one band
themeColorsMissampled(theme) ==
    [k \in 1..5 |-> getColorShader(<<0, 3, 5, 8, 10>>[k], theme)]

\* themeColors of createShaderMaterial and Legend.getThemeColors
themeColors(theme) ==
    [k \in 1..5 |-> getColorShader(<<0, 2, 5, 8, 10>>[k], theme)]

\* new THREE.ShaderMaterial({uniforms: ...})
createShaderMaterial(p, theme, res, speed) ==
    [time |-> 0, pattern |-> patternIndex(p), colors |-> themeColors(theme),
     resolution |-> res, animationSpeed |-> speed]

\* void main(), for the fragment at the corner of every cell: the intensity
\* fed to getThemeColor and the colour it selects (the border darkening of
\* main is left out)
fragmentShader(u) ==
    LET t == Mul(u.time, u.animationSpeed)
        n == u.resolution[1] * u.resolution[2]
        value == [k \in 1..n |->
                    getPatternValue(vUv((k - 1) % u.resolution[1],
                                        (k - 1) \div u.resolution[1], u.resolution),
                                    u.pattern, t, u.resolution)]
    IN  [time |-> t, pattern |-> u.pattern, resolution |-> u.resolution,
         value |-> value,
         color |-> [k \in 1..n |-> u.colors[getThemeColor(value[k]) + 1]]]

\* const RESOLUTION_PRESETS, scaled to PresetRows (25 in the source)
RESOLUTION_PRESETS ==
    [low    |-> <<2 * PresetRows, PresetRows>>,
     medium |-> <<4 * PresetRows, 2 * PresetRows>>,
     high   |-> <<8 * PresetRows, 4 * PresetRows>>,
     ultra  |-> <<16 * PresetRows, 8 * PresetRows>>]

\* const CELL_COUNTS of HeatMap3D, scaled to PresetRows (15 in the source)
CELL_COUNTS ==
    [low    |-> <<2 * PresetRows, PresetRows>>,
     medium |-> <<4 * PresetRows, 2 * PresetRows>>,
     high   |-> <<6 * PresetRows, 3 * PresetRows>>,
     ultra  |-> <<8 * PresetRows, 4 * PresetRows>>]

\* the presets the resolution buttons of the model select
Resolutions == {"low", "medium"}

\* the speeds the slider and the speed buttons of the model select
Speeds == {Scale \div 2, Scale, 2 * Scale}

\* the canvas clock advances by one frame's duration per rendered frame
FrameDt == Scale \div 20

(***************************************************************************)
(* State.                                                                  *)
(***************************************************************************)
VARIABLES
    mounted,        \* the viewer on the page
    lastEvent,      \* the handler or callback that ran last
    events,         \* canvas viewers: control presses and timer callbacks so far
    pattern,        \* useState<PatternType>("waves") of the mounted viewer
    theme,          \* useState<ColorTheme>("github")
    resolution,     \* useState("medium"): the resolution / performanceMode preset
    animationSpeed, \* useState(1)
    useShader,      \* HeatMapShader: useState(true)
    clock,          \* the canvas clock: clock.getElapsedTime()
    timeRef,        \* useRef(0): the time of the CPU animation loop
    data,           \* HeatMap / Grid: useState([]), the cells of the last frame
    lastCall,       \* the last generatePattern call: its arguments, and the
                    \* grid and theme of the render it ran in
    animatePattern, \* HeatMap: the pattern the running animate closure captured
    gridDeps,       \* Grid (HeatMap3D): the dependencies of the effect's last run
    lastUpdateTimeRef, \* Grid (HeatMap3D): useRef(0), the time of the last setData
    dataRef,        \* PatternGenerator: useRef(new Float32Array(columns * rows))
    patternData,    \* Scene (hybrid): which Float32Array the state refers to
    cubesDeps,      \* Cubes (hybrid): the dependencies of the effect's last run
    mesh,           \* the instanced mesh: count and colour set for each instance
    uniforms,       \* ShaderPlane: the uniforms of materialRef.current
    shaderFrame,    \* ShaderPlane: what the fragment shader rendered last
    visited,        \* the pattern at the last mount or button press, then the pattern after each timer tick since
    intervals,      \* the setInterval timers created and not cleared
    pending,        \* HeatMap: the requested animation frames not yet run or cancelled: the pattern each animate closed over
    hoveredCube,    \* Grid (HeatMap3D): <<index>> of the hovered cube, <<>> for null
    particleSystem, \* ParticleSystem (HeatMap3D): the lengths of its refs, the indices its last frame touched
    applied         \* the last call of a function on its own: arguments and results

ui == <<pattern, theme, resolution, animationSpeed, useShader>>

flat == <<data, animatePattern, gridDeps, lastUpdateTimeRef>>

hybrid == <<dataRef, patternData, cubesDeps>>

gpu == <<uniforms, shaderFrame>>

timers == <<visited, intervals, pending>>

scene3D == <<hoveredCube, particleSystem>>

\* the state of the mounted viewer
program == <<mounted, lastEvent, events, ui, clock, timeRef, lastCall, flat, hybrid, mesh, gpu,
             timers, scene3D>>

vars == <<program, applied>>

Viewers == {"HeatMap", "HeatMapShader", "HeatMapHybrid", "HeatMap3D"}

\* the viewers that render in a canvas, frame by frame on its clock
CanvasViewers == Viewers \ {"HeatMap"}

NoApplication == [fn |-> "none"]

NoCall == [patternType |-> "none", time |-> 0, columns |-> 0, rows |-> 0,
           theme |-> "none"]

NoGridDeps == [pattern |-> "none", performanceMode |-> "none"]

NoDeps == [data |-> "none", theme |-> "none", columns |-> 0, rows |-> 0]

NoMaterial == [time |-> 0, pattern |-> -1, colors |-> <<>>,
               resolution |-> <<0, 0>>, animationSpeed |-> 0]

NoFrame == [time |-> 0, pattern |-> -1, resolution |-> <<0, 0>>,
            value |-> <<>>, color |-> <<>>]

\* new Float32Array(n)
Float32Array(n) == [k \in 1..n |-> 0]

(***************************************************************************)
(* HeatMap, the 2D grid (heat-map.tsx).                                    *)
(***************************************************************************)
\* HeatMap.generatePattern: col outer loop, row inner loop, newData.push
generatePattern(patternType, time) ==
    [k \in 1..(HeatMapColumns * HeatMapRows) |->
        LET col == (k - 1) \div HeatMapRows
            row == (k - 1) % HeatMapRows
        IN  [col |-> col, row |-> row,
             count |-> patternCount(patternType, time, col, row,
                                    HeatMapColumns, HeatMapRows)]]

\* cancelAnimationFrame(id): the requested frames without the one id names
\* (position id of frames; no frame when id names one that has run already)
cancelAnimationFrame(frames, id) ==
    SubSeq(frames, 1, id - 1) \o SubSeq(frames, id + 1, Len(frames))

\* an animationFrameId that animate does not update: it keeps the id of the
\* frame requested at the mount, which names no requested frame once a frame
\* has run
animationFrameIdAtStart == IF lastCall = NoCall THEN Len(pending) ELSE 0

\* let animationFrameId of the running effect: animate stores the id of every
\* frame it requests, so the variable names the latest request of its loop
animationFrameId == IF pending = <<>> THEN 0 ELSE Len(pending)

\* animate: the requested frame at position i runs: it advances the time,
\* sets the data from the pattern it closed over and requests its next frame
Animate(i) ==
    /\ mounted = "HeatMap"
    /\ i \in DOMAIN pending
    /\ timeRef < MaxTime
    /\ timeRef' = timeRef + 100
    /\ data' = generatePattern(pending[i], timeRef')
    /\ lastCall' = [patternType |-> pending[i], time |-> timeRef',
                    columns |-> HeatMapColumns, rows |-> HeatMapRows,
                    theme |-> "github"]
    /\ lastEvent' = "animate"
    /\ UNCHANGED <<applied, scene3D, mounted, timers, events, ui, clock, animatePattern, gridDeps,
                   lastUpdateTimeRef, hybrid, mesh, gpu>>

\* an animation effect whose new run restarts the time at 0
AnimationEffectRestartingTime ==
    /\ mounted = "HeatMap"
    /\ animatePattern # pattern
    /\ animatePattern' = pattern
    /\ pending' = Append(cancelAnimationFrame(pending, animationFrameId), pattern)
    /\ timeRef' = 0
    /\ lastEvent' = "effect"
    /\ UNCHANGED <<applied, scene3D, mounted, visited, intervals, events, ui, clock, lastCall,
                   data, gridDeps, lastUpdateTimeRef, hybrid, mesh, gpu>>

\* the animation effect re-runs after a render with a new pattern: the
\* cleanup of the previous run cancels the frame its animationFrameId names,
\* then the new run requests a frame for an animate closed over the new pattern
AnimationEffect ==
    /\ mounted = "HeatMap"
    /\ animatePattern # pattern
    /\ animatePattern' = pattern
    /\ pending' = Append(cancelAnimationFrame(pending, animationFrameId), pattern)
    /\ lastEvent' = "effect"
    /\ UNCHANGED <<applied, scene3D, mounted, visited, intervals, events, ui, clock, timeRef, lastCall,
                   data, gridDeps, lastUpdateTimeRef, hybrid, mesh, gpu>>

\* HeatMap is unmounted: the cleanup of the animation effect and the cleanup
\* of the cycle effect (clearInterval) run
Unmount ==
    /\ mounted = "HeatMap"
    /\ mounted' = "unmounted"
    /\ pending' = cancelAnimationFrame(pending, animationFrameId)
    /\ intervals' = intervals - 1
    /\ lastEvent' = "unmount"
    /\ UNCHANGED <<applied, scene3D, visited, events, ui, clock, timeRef, lastCall, flat, hybrid, mesh, gpu>>

(***************************************************************************)
(* The controls shared by the viewers.                                     *)
(***************************************************************************)
\* Cubes of HeatMap3D: data.map((cell) => ... getColor(cell.count, theme))
Cubes3D(cells, th) ==
    [k \in DOMAIN cells |->
        [count |-> cells[k].count, color |-> getColor3D(cells[k].count, th)]]

\* a control press or timer callback counts against MaxEvents in a canvas viewer
CountEvent ==
    IF mounted = "HeatMap"
    THEN events' = events
    ELSE events < MaxEvents /\ events' = events + 1

\* onClick={() => setPattern(p)} of the five pattern buttons
SetPattern(p) ==
    /\ mounted \in Viewers
    /\ CountEvent
    /\ pattern' = p
    /\ visited' = <<p>>
    /\ lastEvent' = "click"
    /\ UNCHANGED <<applied, scene3D, mounted, intervals, pending, theme, resolution, animationSpeed, useShader, clock,
                   timeRef, lastCall, flat, hybrid, mesh, gpu>>

\* the setInterval callback: setPattern((prevPattern) => ...)
CycleTick ==
    /\ intervals > 0
    /\ CountEvent
    /\ pattern' = cycleUpdater(pattern)
    /\ visited' = IF Len(visited) > Len(patterns)
                  THEN <<pattern, pattern'>>
                  ELSE Append(visited, pattern')
    /\ lastEvent' = "interval"
    /\ UNCHANGED <<applied, scene3D, mounted, intervals, pending, theme, resolution, animationSpeed, useShader, clock,
                   timeRef, lastCall, flat, hybrid, mesh, gpu>>

\* onClick={() => setTheme(t)}; the hybrid Scene keys Cubes by the theme, so a
\* new theme mounts a new Cubes with a new instanced mesh; the Cubes of
\* HeatMap3D render again with the new theme
SetTheme(t) ==
    /\ mounted \in CanvasViewers
    /\ CountEvent
    /\ t # theme
    /\ theme' = t
    /\ CASE mounted = "HeatMapHybrid" -> mesh' = <<>> /\ cubesDeps' = NoDeps
         [] mounted = "HeatMap3D" -> mesh' = Cubes3D(data, t) /\ cubesDeps' = cubesDeps
         [] OTHER -> UNCHANGED <<mesh, cubesDeps>>
    /\ lastEvent' = "click"
    /\ UNCHANGED <<applied, scene3D, mounted, timers, pattern, resolution, animationSpeed, useShader, clock,
                   timeRef, lastCall, flat, dataRef, patternData, gpu>>

\* onClick={() => setResolution(r)} / setPerformanceMode(r); a new
\* columns * rows re-creates the instanced mesh (HeatMap3D keeps its cubes)
SetResolution(r) ==
    /\ mounted \in CanvasViewers
    /\ CountEvent
    /\ r # resolution
    /\ resolution' = r
    /\ mesh' = IF mounted = "HeatMap3D" THEN mesh ELSE <<>>
    /\ lastEvent' = "click"
    /\ UNCHANGED <<applied, scene3D, mounted, timers, pattern, theme, animationSpeed, useShader, clock,
                   timeRef, lastCall, flat, hybrid, gpu>>

\* onValueChange={(value) => setAnimationSpeed(value[0])} and the speed buttons
SetAnimationSpeed(v) ==
    /\ mounted \in {"HeatMapShader", "HeatMapHybrid"}
    /\ CountEvent
    /\ v # animationSpeed
    /\ animationSpeed' = v
    /\ lastEvent' = "click"
    /\ UNCHANGED <<applied, scene3D, mounted, timers, pattern, theme, resolution, useShader, clock,
                   timeRef, lastCall, flat, hybrid, mesh, gpu>>

(***************************************************************************)
(* HeatMapHybrid (heat-map-hybrid.tsx, first half).                        *)
(***************************************************************************)
\* PatternGenerator.generatePattern: the buffer after the loop has written it
generatePatternHybrid(buf, patternType, time, columns, rows) ==
    [k \in DOMAIN buf |->
        IF k - 1 < columns * rows
        THEN patternValue(patternType, time, JsRem(k - 1, columns),
                          (k - 1) \div columns, columns, rows)
        ELSE buf[k]]

\* useFrame of PatternGenerator: advance the time, fill dataRef.current,
\* onUpdate(data) -> setPatternData(data)
PatternGeneratorFrame ==
    /\ mounted = "HeatMapHybrid"
    /\ clock < MaxClock
    /\ clock' = clock + FrameDt
    /\ timeRef' = timeRef + Mul(50, animationSpeed)
    /\ LET res == RESOLUTION_PRESETS[resolution]
       IN  /\ dataRef' = generatePatternHybrid(dataRef, pattern, timeRef', res[1], res[2])
           /\ lastCall' = [patternType |-> pattern, time |-> timeRef',
                           columns |-> res[1], rows |-> res[2], theme |-> theme]
    /\ patternData' = "dataRef"
    /\ lastEvent' = "frame"
    /\ UNCHANGED <<applied, scene3D, mounted, timers, events, ui, flat, cubesDeps, mesh, gpu>>

\* the Float32Array the Scene state refers to
PatternDataArray ==
    IF patternData = "dataRef" THEN dataRef
    ELSE Float32Array(RESOLUTION_PRESETS["medium"][1] * RESOLUTION_PRESETS["medium"][2])

\* the dependencies of the Cubes effect in the current render
CubesDepsNow ==
    [data |-> patternData, theme |-> theme,
     columns |-> RESOLUTION_PRESETS[resolution][1], rows |-> RESOLUTION_PRESETS[resolution][2]]

\* the body of the Cubes effect: value = data[i], count = Math.floor(value * 10),
\* getColor(count, theme)
cubesEffect(buf, th, columns, rows) ==
    [k \in 1..Min(columns * rows, Len(buf)) |->
        LET value == Fround(buf[k])
            count == Floor(value * 10)
        IN  [count |-> count, color |-> getColorHybrid(count, th)]]

\* useEffect of Cubes: runs after a render in which a dependency changed
CubesEffect ==
    /\ mounted = "HeatMapHybrid"
    /\ cubesDeps # CubesDepsNow
    /\ cubesDeps' = CubesDepsNow
    /\ mesh' = cubesEffect(PatternDataArray, theme, CubesDepsNow.columns, CubesDepsNow.rows)
    /\ lastEvent' = "effect"
    /\ UNCHANGED <<applied, scene3D, mounted, timers, events, ui, clock, timeRef, lastCall, flat, dataRef, patternData, gpu>>

(***************************************************************************)
(* HeatMapShader (heat-map-shader.tsx).                                    *)
(***************************************************************************)
\* the material the ShaderPlane effect would create in the current render
MaterialNow ==
    createShaderMaterial(pattern, theme, RESOLUTION_PRESETS[resolution], animationSpeed)

\* useEffect of ShaderPlane: a new material when a dependency changed
ShaderPlaneEffect ==
    /\ mounted = "HeatMapShader"
    /\ useShader
    /\ [uniforms EXCEPT !.time = 0] # MaterialNow
    /\ uniforms' = MaterialNow
    /\ lastEvent' = "effect"
    /\ UNCHANGED <<applied, scene3D, mounted, timers, events, ui, clock, timeRef, lastCall, flat, hybrid, mesh, shaderFrame>>

\* useFrame of ShaderPlane, then the render of the plane with the material
ShaderPlaneFrame ==
    /\ mounted = "HeatMapShader"
    /\ useShader
    /\ uniforms # NoMaterial
    /\ clock < MaxClock
    /\ clock' = clock + FrameDt
    /\ uniforms' = [uniforms EXCEPT !.time = clock']
    /\ shaderFrame' = fragmentShader(uniforms')
    /\ lastEvent' = "frame"
    /\ UNCHANGED <<applied, scene3D, mounted, timers, events, ui, timeRef, lastCall, flat, hybrid, mesh>>

\* InstancedCubes.generatePattern: the count and colour set for instance i
generatePatternInstanced(patternType, time, th, columns, rows) ==
    [k \in 1..(columns * rows) |->
        LET col == JsRem(k - 1, columns)
            row == (k - 1) \div columns
            count == patternCount(patternType, time, col, row, columns, rows)
        IN  [count |-> count, color |-> getColorShader(count, th)]]

\* useFrame of InstancedCubes
InstancedCubesFrame ==
    /\ mounted = "HeatMapShader"
    /\ ~useShader
    /\ clock < MaxClock
    /\ clock' = clock + FrameDt
    /\ timeRef' = timeRef + Mul(50, animationSpeed)
    /\ LET res == RESOLUTION_PRESETS[resolution]
       IN  /\ mesh' = generatePatternInstanced(pattern, timeRef', theme, res[1], res[2])
           /\ lastCall' = [patternType |-> pattern, time |-> timeRef',
                           columns |-> res[1], rows |-> res[2], theme |-> theme]
    /\ lastEvent' = "frame"
    /\ UNCHANGED <<applied, scene3D, mounted, timers, events, ui, flat, hybrid, gpu>>

\* onClick={() => setUseShader(!useShader)}: the Scene unmounts one renderer
\* and mounts the other
ToggleShader ==
    /\ mounted = "HeatMapShader"
    /\ CountEvent
    /\ useShader' = ~useShader
    /\ timeRef' = 0
    /\ mesh' = <<>>
    /\ uniforms' = NoMaterial
    /\ shaderFrame' = NoFrame
    /\ lastCall' = NoCall
    /\ lastEvent' = "click"
    /\ UNCHANGED <<applied, scene3D, mounted, timers, pattern, theme, resolution, animationSpeed, clock, flat, hybrid>>

(***************************************************************************)
(* HeatMap3D (heat-map-hybrid.tsx, second half).                           *)
(***************************************************************************)
\* a generator that also reads the component's state: its time is offset by
\* the wall time of the last update
generatePatternGridStateful(patternType, time, columns, rows) ==
    [k \in 1..(IF columns > 0 /\ rows > 0 THEN columns * rows ELSE 0) |->
        LET col == (k - 1) \div rows
            row == (k - 1) % rows
        IN  [col |-> col, row |-> row,
             count |-> patternCount(patternType, time + lastUpdateTimeRef, col, row,
                                    columns, rows)]]

\* Grid.generatePattern: col outer loop, row inner loop, newData.push
\* (neither loop runs unless both columns and rows are positive)
generatePatternGrid(patternType, time, columns, rows) ==
    [k \in 1..(IF columns > 0 /\ rows > 0 THEN columns * rows ELSE 0) |->
        LET col == (k - 1) \div rows
            row == (k - 1) % rows
        IN  [col |-> col, row |-> row,
             count |-> patternCount(patternType, time, col, row, columns, rows)]]

\* the dependencies of the Grid effect in the current render
GridDepsNow == [pattern |-> pattern, performanceMode |-> resolution]

\* useEffect of Grid: setData(generatePattern(pattern, timeRef.current)) after
\* the mount and after a render with a new pattern or performance mode
GridEffect ==
    /\ mounted = "HeatMap3D"
    /\ gridDeps # GridDepsNow
    /\ gridDeps' = GridDepsNow
    /\ LET res == CELL_COUNTS[resolution]
       IN  /\ data' = generatePatternGrid(pattern, timeRef, res[1], res[2])
           /\ lastCall' = [patternType |-> pattern, time |-> timeRef,
                           columns |-> res[1], rows |-> res[2], theme |-> theme]
    /\ mesh' = Cubes3D(data', theme)
    /\ lastEvent' = "effect"
    /\ UNCHANGED <<applied, scene3D, mounted, timers, events, ui, clock, timeRef, animatePattern,
                   lastUpdateTimeRef, hybrid, gpu>>

\* useFrame of Grid: the time advances every frame; setData only when more
\* than updateInterval of wall time has passed since the last one, which it
\* has on the first frame (lastUpdateTimeRef.current is 0)
GridFrame(update) ==
    /\ mounted = "HeatMap3D"
    /\ clock < MaxClock
    /\ clock' = clock + FrameDt
    /\ timeRef' = timeRef + 50
    /\ update \/ lastUpdateTimeRef # 0
    /\ IF update
       THEN LET res == CELL_COUNTS[resolution]
            IN  /\ data' = generatePatternGrid(pattern, timeRef', res[1], res[2])
                /\ lastCall' = [patternType |-> pattern, time |-> timeRef',
                                columns |-> res[1], rows |-> res[2], theme |-> theme]
                /\ mesh' = Cubes3D(data', theme)
                /\ lastUpdateTimeRef' = clock'
       ELSE UNCHANGED <<data, lastCall, mesh, lastUpdateTimeRef>>
    /\ lastEvent' = "frame"
    /\ UNCHANGED <<applied, scene3D, mounted, timers, events, ui, animatePattern, gridDeps, hybrid, gpu>>

\* the userData.index of the cubes the pointer's ray is tried on: the first
\* and the last cube rendered; NoHit when the ray intersects none
NoHit == 0 - 1

Hits == {NoHit} \cup {k - 1 : k \in {1, Len(mesh)} \cap DOMAIN mesh}

\* useFrame of Cubes (HeatMap3D): the ray from the pointer hits the cube with
\* userData.index hit, or none; a pointer move counts as an event
CubesFrame(hit) ==
    /\ mounted = "HeatMap3D"
    /\ data # <<>>
    /\ hit \in Hits
    /\ CountEvent
    /\ hoveredCube' = IF hit # NoHit /\ hit < Len(data) THEN <<hit>> ELSE <<>>
    /\ lastEvent' = "hover"
    /\ UNCHANGED <<applied, particleSystem, mounted, timers, ui, clock, timeRef, lastCall,
                   flat, hybrid, mesh, gpu>>

\* a tooltip rendered whenever a cube is remembered as hovered
HoverInfoOfAnyHoveredCube == hoveredCube # <<>> /\ data # <<>>

\* the render of Grid: hoveredCube !== null && data[hoveredCube.index] && <HoverInfo ... />
\* (data[i] is undefined, so falsy, unless i is an index of data)
HoverInfo ==
    /\ hoveredCube # <<>>
    /\ (hoveredCube[1] + 1) \in DOMAIN data

\* const particlesCount = {...}[performanceMode], a hundredth of each
particlesCounts == [low |-> 2, medium |-> 5, high |-> 10, ultra |-> 20]

particlesCount == particlesCounts[resolution]

\* ParticleSystem before Grid has rendered it
NoParticleSystem ==
    [mounted |-> FALSE, positionsRef |-> 0, velocitiesRef |-> 0,
     initializedRef |-> FALSE, prevThemeRef |-> "none",
     particlesCount |-> 0, touched |-> {}, threw |-> FALSE]

\* resetParticles: the loop i < particlesCount assigns velocities[i], which
\* extends the array, and writes the typed arrays, which keep their length
resetParticles(ps) ==
    [ps EXCEPT !.velocitiesRef = Max(ps.velocitiesRef, particlesCount)]

\* the first render of ParticleSystem (the render of Grid after data has
\* become available) and its mount effects: the refs are allocated for the
\* particlesCount of this render, the particles are initialised
ParticleSystemMount ==
    /\ mounted = "HeatMap3D"
    /\ data # <<>>
    /\ ~particleSystem.mounted
    /\ particleSystem' = [NoParticleSystem EXCEPT
                             !.mounted = TRUE,
                             !.positionsRef = particlesCount,
                             !.velocitiesRef = particlesCount,
                             !.initializedRef = TRUE,
                             !.prevThemeRef = theme]
    /\ lastEvent' = "effect"
    /\ UNCHANGED <<applied, hoveredCube, mounted, timers, events, ui, clock, timeRef,
                   lastCall, flat, hybrid, mesh, gpu>>

\* useEffect of ParticleSystem on [theme]
ParticleThemeEffect ==
    /\ mounted = "HeatMap3D"
    /\ particleSystem.mounted
    /\ theme # particleSystem.prevThemeRef
    /\ particleSystem.initializedRef
    /\ particleSystem' = [resetParticles(particleSystem) EXCEPT !.prevThemeRef = theme]
    /\ lastEvent' = "effect"
    /\ UNCHANGED <<applied, hoveredCube, mounted, timers, events, ui, clock, timeRef,
                   lastCall, flat, hybrid, mesh, gpu>>

\* the values Math.floor(Math.random() * (particlesCount - updateCount)) is
\* tried with: the least and the greatest
StartIndices(updateCount) == {0, Max(0, particlesCount - updateCount - 1)}

\* useFrame of ParticleSystem: updateCount particles from startIndex on are
\* updated; reading velocities[i].vx of a missing entry throws; the loop stops
\* at the first particle when its life has run out (dead), and
\* resetParticles follows
ParticleSystemFrame(startIndex, dead) ==
    /\ mounted = "HeatMap3D"
    /\ particleSystem.mounted
    /\ particleSystem.initializedRef
    /\ ~particleSystem.threw
    /\ LET updateCount == Min(particlesCount, 2)
           last == IF dead THEN startIndex ELSE startIndex + updateCount - 1
           missing == {i \in startIndex..last : i >= particleSystem.velocitiesRef}
           touched == {i \in startIndex..last : \A j \in missing : i <= j}
           updated == [particleSystem EXCEPT !.particlesCount = particlesCount,
                                             !.touched = touched,
                                             !.threw = missing # {}]
       IN  /\ startIndex \in StartIndices(updateCount)
           /\ particleSystem' = IF dead /\ missing = {}
                                THEN resetParticles(updated)
                                ELSE updated
    /\ lastEvent' = "particles"
    /\ UNCHANGED <<applied, hoveredCube, mounted, timers, events, ui, clock, timeRef,
                   lastCall, flat, hybrid, mesh, gpu>>

(***************************************************************************)
(* The specification.                                                      *)
(***************************************************************************)
\* the state after the first render of a viewer
Mounted(viewer) ==
    /\ mounted = viewer
    /\ lastEvent = "mount"
    /\ events = 0
    /\ pattern = "waves"
    /\ theme = "github"
    /\ resolution = "medium"
    /\ animationSpeed = Scale
    /\ useShader = TRUE
    /\ clock = 0
    /\ timeRef = 0
    /\ data = <<>>
    /\ lastCall = NoCall
    /\ animatePattern = "waves"
    /\ gridDeps = NoGridDeps
    /\ lastUpdateTimeRef = 0
    /\ patternData = "initial"
    /\ cubesDeps = NoDeps
    /\ mesh = <<>>
    /\ uniforms = NoMaterial
    /\ shaderFrame = NoFrame
    /\ hoveredCube = <<>>
    /\ particleSystem = NoParticleSystem
    /\ visited = <<"waves">>
    /\ intervals = IF mounted \in Viewers THEN 1 ELSE 0
    /\ pending = IF mounted = "HeatMap" THEN <<"waves">> ELSE <<>>
    /\ dataRef = IF mounted = "HeatMapHybrid"
                 THEN Float32Array(RESOLUTION_PRESETS["medium"][1]
                                   * RESOLUTION_PRESETS["medium"][2])
                 ELSE <<>>

Init ==
    /\ \E viewer \in Viewers : Mounted(viewer)
    /\ applied = NoApplication

Next ==
    \/ \E i \in DOMAIN pending : Animate(i)
    \/ AnimationEffect
    \/ Unmount
    \/ \E p \in PatternType : SetPattern(p)
    \/ CycleTick
    \/ \E t \in ColorTheme : SetTheme(t)
    \/ \E r \in Resolutions : SetResolution(r)
    \/ \E v \in Speeds : SetAnimationSpeed(v)
    \/ PatternGeneratorFrame
    \/ CubesEffect
    \/ ShaderPlaneEffect
    \/ ShaderPlaneFrame
    \/ InstancedCubesFrame
    \/ ToggleShader
    \/ GridEffect
    \/ \E update \in BOOLEAN : GridFrame(update)

Spec == Init /\ [][Next]_vars

(***************************************************************************)
(* HeatMap3D with its pointer and its particle system, at three of its     *)
(* performance modes and two of its themes, the pattern left as mounted.   *)
(***************************************************************************)
\* the performance modes the selector is pressed on: one below and one above
\* the mode mounted
PerformanceModes == {"low", "medium", "high"}

\* the themes the theme selector is pressed on: the one mounted and another
Themes3D == {"github", "heat"}

Init3D ==
    /\ Mounted("HeatMap3D")
    /\ applied = NoApplication

Next3D ==
    \/ GridEffect
    \/ \E update \in BOOLEAN : GridFrame(update)
    \/ \E r \in PerformanceModes : SetResolution(r)
    \/ \E t \in Themes3D : SetTheme(t)
    \/ \E hit \in Hits : CubesFrame(hit)
    \/ ParticleSystemMount
    \/ ParticleThemeEffect
    \/ \E startIndex \in StartIndices(Min(particlesCount, 2)), dead \in BOOLEAN :
          ParticleSystemFrame(startIndex, dead)

Spec3D == Init3D /\ [][Next3D]_vars

(***************************************************************************)
(* The functions called on their own: one call per step, on arguments      *)
(* drawn from bounded sets, with no viewer mounted.                        *)
(***************************************************************************)
\* the counts the colour mappers are called on: [0, 10] widened by CountSlack
CountSlack == 2

Counts == (0 - CountSlack)..(10 + CountSlack)

\* a cell drawn with a count and a theme: the colour each copy of getColor
\* returns and the label getIntensityLabel returns
colorMapper(count, th) ==
    [fn |-> "getColor", count |-> count, theme |-> th,
     heatMap |-> getColor2D(count),
     shader |-> getColorShader(count, th),
     hybrid |-> getColorHybrid(count, th),
     heatMap3D |-> getColor3D(count, th),
     label |-> getIntensityLabel(count)]

ApplyGetColor(count, th) ==
    /\ applied' = colorMapper(count, th)
    /\ UNCHANGED program

\* the intensities the shader's colour lookup is called on: [0, 1] in steps
\* of 0.01
Intensities == {k * (Scale \div 100) : k \in 0..100}

\* a fragment of intensity value drawn by a material of theme th: the index
\* getThemeColor selects and the entry of the colors uniform at that index
themeColor(value, th) ==
    [fn |-> "getThemeColor", value |-> value, theme |-> th,
     index |-> getThemeColor(value),
     color |-> themeColors(th)[getThemeColor(value) + 1]]

ApplyGetThemeColor(value, th) ==
    /\ applied' = themeColor(value, th)
    /\ UNCHANGED program

\* the grids generatePattern is called on: up to MaxGrid columns and rows,
\* and down to GridSlack below zero
MaxGrid == 2

GridSlack == 2

GridSizes == (0 - GridSlack)..MaxGrid

\* the times generatePattern is called on
Times == {0, Scale \div 2, 5 * Scale}

\* PatternGenerator mounted on a columns x rows grid: useRef(new
\* Float32Array(columns * rows)) throws a RangeError for a negative length;
\* otherwise the buffer after one generatePattern
patternGenerator(patternType, time, columns, rows) ==
    IF columns * rows < 0
    THEN [threw |-> TRUE, data |-> <<>>]
    ELSE [threw |-> FALSE,
          data |-> generatePatternHybrid(Float32Array(columns * rows), patternType,
                                         time, columns, rows)]

\* one call of each generator that takes its grid from its component's props
frame(patternType, time, columns, rows) ==
    [fn |-> "generatePattern", patternType |-> patternType, time |-> time,
     columns |-> columns, rows |-> rows,
     grid |-> generatePatternGrid(patternType, time, columns, rows),
     instanced |-> generatePatternInstanced(patternType, time, "github", columns, rows),
     hybrid |-> patternGenerator(patternType, time, columns, rows)]

ApplyGeneratePattern(patternType, time, columns, rows) ==
    /\ applied' = frame(patternType, time, columns, rows)
    /\ UNCHANGED program

\* the widest row of cubes the four generators are compared on
MaxColumns == 10

\* the grids they are compared on: one row of 1..MaxColumns cubes, and the
\* grid of HeatMap
CubeGrids == {<<columns, 1>> : columns \in 1..MaxColumns}
                 \cup {<<HeatMapColumns, HeatMapRows>>}

\* the patterns they are compared on: those whose intensities the model
\* computes without approximating a sine, a square root or an arc tangent
ExactPatterns == {"gradient", "checkerboard"}

\* one frame of each CPU generator on the same grid at the same time: the
\* counts of HeatMap.generatePattern (on its own grid only), of
\* Grid.generatePattern, of InstancedCubes.generatePattern, and the counts
\* the Cubes effect derives from the buffer PatternGenerator has filled
cubes(patternType, time, columns, rows) ==
    [fn |-> "Cubes", patternType |-> patternType, time |-> time,
     columns |-> columns, rows |-> rows,
     heatMap |-> IF columns = HeatMapColumns /\ rows = HeatMapRows
                 THEN generatePattern(patternType, time)
                 ELSE <<>>,
     grid |-> generatePatternGrid(patternType, time, columns, rows),
     instanced |-> generatePatternInstanced(patternType, time, "github", columns, rows),
     hybrid |-> cubesEffect(patternGenerator(patternType, time, columns, rows).data,
                            "github", columns, rows)]

ApplyCubes(patternType, time, columns, rows) ==
    /\ applied' = cubes(patternType, time, columns, rows)
    /\ UNCHANGED program

PureInit ==
    /\ Mounted("none")
    /\ applied = NoApplication

PureNext ==
    \/ \E count \in Counts, th \in ColorTheme : ApplyGetColor(count, th)
    \/ \E value \in Intensities, th \in ColorTheme : ApplyGetThemeColor(value, th)
    \/ \E patternType \in PatternType, time \in Times, columns, rows \in GridSizes :
          ApplyGeneratePattern(patternType, time, columns, rows)
    \/ \E patternType \in ExactPatterns, time \in Times, size \in CubeGrids :
          ApplyCubes(patternType, time, size[1], size[2])

PureSpec == PureInit /\ [][PureNext]_vars

(***************************************************************************)
(* Properties.                                                             *)
(***************************************************************************)
\* the cell at position k of a column-major frame (HeatMap, Grid) is data[k];
\* the grid the frame was generated for is lastCall.columns x lastCall.rows
CellsOfCall == 1..(lastCall.columns * lastCall.rows)

\* the intensities PatternGenerator wrote in its last call
WrittenCells == {k \in CellsOfCall : k \in DOMAIN dataRef}

\* C1: every count generatePattern emits (HeatMap, Grid of HeatMap3D) is an
\* integer in [0, 10], for every pattern, cell and time the loop reaches.
C1_CountInRange == \A k \in DOMAIN data : data[k].count \in 0..10

\* C2: for the spiral pattern every intensity PatternGenerator writes lies in
\* [0, 1): it is never negative, also for cells whose angle is negative.
C2_SpiralIntensityInUnit ==
    (mounted = "HeatMapHybrid" /\ lastCall.patternType = "spiral")
        => \A k \in WrittenCells : dataRef[k] >= 0 /\ dataRef[k] < Scale

\* the copy of getColor the mounted viewer colours its cubes with, and the
\* theme of the render that coloured them
C3_getColor(count, th) ==
    CASE mounted = "HeatMapHybrid" -> getColorHybrid(count, th)
      [] mounted = "HeatMap3D" -> getColor3D(count, th)
      [] OTHER -> getColorShader(count, th)

C3_Theme ==
    CASE mounted = "HeatMapHybrid" -> cubesDeps.theme
      [] mounted = "HeatMap3D" -> theme
      [] OTHER -> lastCall.theme

\* C3: every copy of getColor clamps its count to [0, 10] before mapping: the
\* colour of every cube is the colour of its count clamped to [0, 10].
C3_EveryCopyClamps ==
    \A k \in DOMAIN mesh :
        mesh[k].color = C3_getColor(Min(10, Max(0, mesh[k].count)), C3_Theme)

\* C4: the shader's getPatternValue returns, for every cell, the intensity
\* the CPU formula gives for the same pattern, cell and effective time.
C4_ShaderMatchesCpu ==
    shaderFrame # NoFrame =>
        \A k \in DOMAIN shaderFrame.value :
            shaderFrame.value[k]
                = patternValue(patterns[shaderFrame.pattern + 1], shaderFrame.time,
                               (k - 1) % shaderFrame.resolution[1],
                               (k - 1) \div shaderFrame.resolution[1],
                               shaderFrame.resolution[1], shaderFrame.resolution[2])

\* the fixed order of the patterns, as a successor map
C5_Successor ==
    [waves |-> "ripples", ripples |-> "gradient", gradient |-> "checkerboard",
     checkerboard |-> "spiral", spiral |-> "waves"]

\* C5: every timer tick moves the pattern to the successor of the pattern
\* held immediately before the tick, wrapping spiral to waves, however ticks
\* interleave with button presses.
C5_TickAdvances == [][lastEvent' = "interval" => pattern' = C5_Successor[pattern]]_vars

C5_Wrapped == lastEvent = "interval" /\ pattern = "waves" /\ mounted = "HeatMap3D"

\* C6: once a frame's data has been handed to the consumer (the Scene state
\* patternData), computing a later frame does not change the values the
\* consumer holds.
C6_HandedDataUnchanged ==
    [][patternData = "dataRef" => PatternDataArray' = PatternDataArray]_vars

\* C7: from one rendered frame to the next the effective time never
\* decreases, on the CPU path (timeRef) and on the shader path (elapsed time
\* times animationSpeed), however frames interleave with changes of the
\* pattern, theme, resolution and speed.
C7_TimeNeverDecreases ==
    [][useShader' = useShader =>
          /\ timeRef' >= timeRef
          /\ (shaderFrame # NoFrame => shaderFrame'.time >= shaderFrame.time)]_vars

\* C8: for the checkerboard pattern every count is exactly 0 or 10 and every
\* intensity exactly 0 or 1.
C8_CheckerboardBinary ==
    lastCall.patternType = "checkerboard" =>
        /\ \A k \in DOMAIN data : data[k].count \in {0, 10}
        /\ mounted = "HeatMapShader" => \A k \in DOMAIN mesh : mesh[k].count \in {0, 10}
        /\ mounted = "HeatMapHybrid" => \A k \in WrittenCells : dataRef[k] \in {0, Scale}

C8_BothValues ==
    /\ mounted = "HeatMap3D"
    /\ lastCall.patternType = "checkerboard"
    /\ lastCall.time > 0
    /\ \E k \in DOMAIN data : data[k].count = 0
    /\ \E k \in DOMAIN data : data[k].count = 10

\* the frame the mounted viewer's generatePattern gives at another time
C9_FrameAt(time) ==
    IF mounted = "HeatMap" THEN generatePattern("checkerboard", time)
    ELSE generatePatternGrid("checkerboard", time, lastCall.columns, lastCall.rows)

\* C9: a checkerboard cell is full exactly when col + row + floor(time / 5)
\* is even; cells adjacent in a row or a column have opposite values; the
\* value of a cell at time + 5 is the opposite of its value at time.
C9_CheckerboardParity ==
    (lastCall.patternType = "checkerboard" /\ mounted \in {"HeatMap", "HeatMap3D"}) =>
        /\ \A k \in DOMAIN data :
              (data[k].count = 10)
                  <=> ((data[k].col + data[k].row + (lastCall.time \div (5 * Scale))) % 2 = 0)
        /\ \A k, j \in DOMAIN data :
              (Abs(data[k].col - data[j].col) + Abs(data[k].row - data[j].row) = 1)
                  => data[k].count + data[j].count = 10
        /\ \A k \in DOMAIN data :
              C9_FrameAt(lastCall.time + 5 * Scale)[k].count = 10 - data[k].count

C9_Flipped ==
    /\ mounted = "HeatMap"
    /\ lastCall.patternType = "checkerboard"
    /\ lastCall.time >= 5 * Scale
    /\ data[1].count = 0

C11_FrameCoverage ==
    lastCall # NoCall =>
        /\ mounted \in {"HeatMap", "HeatMap3D"} =>
              /\ Len(data) = lastCall.columns * lastCall.rows
              /\ \A k \in DOMAIN data :
                    /\ data[k].col \in 0..(lastCall.columns - 1)
                    /\ data[k].row \in 0..(lastCall.rows - 1)
              /\ \A c \in 0..(lastCall.columns - 1), r \in 0..(lastCall.rows - 1) :
                    Cardinality({k \in DOMAIN data :
                                    data[k].col = c /\ data[k].row = r}) = 1
        /\ mounted = "HeatMapHybrid" =>
              Len(dataRef) = lastCall.columns * lastCall.rows

\* C12: the consumer decodes index i with the mapping the producer wrote it
\* with: whenever the Cubes effect reads the buffer PatternGenerator filled,
\* the columns and rows it decodes with are those of the last write.
C12_SameMappingBothEnds ==
    [][(mounted = "HeatMapHybrid" /\ lastEvent' = "effect" /\ patternData = "dataRef")
          => (cubesDeps'.columns = lastCall.columns /\ cubesDeps'.rows = lastCall.rows)]_vars

\* the literal colours of theme github for the counts 1..10
C13_Literal ==
    <<"#9be9a8", "#9be9a8", "#40c463", "#40c463", "#40c463",
      "#30a14e", "#30a14e", "#30a14e", "#216e39", "#216e39">>

\* C13: for theme github every copy of getColor returns "#ebedf0" for count
\* 0, "#9be9a8" for 1..2, "#40c463" for 3..5, "#30a14e" for 6..8 and
\* "#216e39" for 9..10.
C13_GithubLiterals ==
    (applied.fn = "getColor" /\ applied.theme = "github" /\ applied.count \in 0..10) =>
        LET colour == IF applied.count = 0 THEN <<"#ebedf0">>
                      ELSE <<C13_Literal[applied.count]>>
        IN  /\ applied.heatMap = colour
            /\ applied.shader = colour
            /\ applied.hybrid = colour
            /\ applied.heatMap3D = colour

C13_UpperBoundary ==
    /\ applied.fn = "getColor" /\ applied.theme = "github" /\ applied.count = 8
    /\ applied.shader = <<"#30a14e">>

\* the band of a count in [0, 10]: {0}, {1,2}, {3,4,5}, {6,7,8}, {9,10}
C14_Band(count) ==
    IF count = 0 THEN 0 ELSE <<1, 1, 2, 2, 2, 3, 3, 3, 4, 4>>[count]

C14_SteppedThemes == {"github", "heat", "ocean", "purple"}

\* C14: in each stepped theme two counts of [0, 10] get the same colour
\* exactly when they are in the same band, so each theme has exactly 5
\* colours; in every themed copy of getColor.
C14_SameBandSameColour ==
    (applied.fn = "getColor" /\ applied.theme \in C14_SteppedThemes
                             /\ applied.count \in 0..10) =>
        /\ \A b \in 0..10 :
              LET same == C14_Band(b) = C14_Band(applied.count)
              IN  /\ (getColorShader(b, applied.theme) = applied.shader) <=> same
                  /\ (getColor3D(b, applied.theme) = applied.heatMap3D) <=> same
                  /\ (getColorHybrid(b, applied.theme) = applied.hybrid) <=> same
        /\ Cardinality({getColorShader(b, applied.theme) : b \in 0..10}) = 5
        /\ Cardinality({getColor3D(b, applied.theme) : b \in 0..10}) = 5

C14_OceanMiddle ==
    /\ applied.fn = "getColor" /\ applied.theme = "ocean" /\ applied.count = 6
    /\ applied.heatMap3D = <<"#1976d2">>

C15_Labels ==
    <<"No activity", "Low activity", "Medium activity", "High activity",
      "Very high activity">>

\* the index of the band a label, and a colour of a stepped theme, stands for
C15_LabelBand(label) == CHOOSE k \in 1..5 : C15_Labels[k] = label

C15_ColourBand(colour, th) == CHOOSE k \in 1..5 : <<ThemeTable(th)[k]>> = colour

\* C15: for every integer count the label getIntensityLabel returns has the
\* band index of the colour getColor returns (HeatMap; HeatMap3D in the
\* stepped themes): the label of a cell and its colour never disagree.
C15_LabelMatchesColour ==
    applied.fn = "getColor" =>
        /\ applied.label \in {C15_Labels[k] : k \in 1..5}
        /\ C15_LabelBand(applied.label) = C15_ColourBand(applied.heatMap, "github")
        /\ applied.theme \in C14_SteppedThemes =>
              C15_LabelBand(applied.label)
                  = C15_ColourBand(applied.heatMap3D, applied.theme)

C15_MediumCell ==
    /\ applied.fn = "getColor" /\ applied.theme = "purple" /\ applied.count = 5
    /\ applied.label = "Medium activity"
    /\ applied.heatMap3D = <<"#9c27b0">>

\* the hue of a rainbow colour and the lightness of a monochrome colour
C16_Hue(colour) == colour[2]

C17_Lightness(colour) == colour[4]

\* C16: the rainbow hue is 0 at count 0, 300 at count 10 and strictly
\* increasing in the count, and the hue of every cube coloured in theme
\* rainbow is within [0, 300].
C16_RainbowHueInRange ==
    /\ getColorShader(0, "rainbow") = <<"hsl", 0, 80, 60>>
    /\ getColorShader(10, "rainbow") = <<"hsl", 300, 80, 60>>
    /\ \A c \in 0..9 : C16_Hue(getColorShader(c, "rainbow"))
                          < C16_Hue(getColorShader(c + 1, "rainbow"))
    /\ C3_Theme = "rainbow" =>
          \A k \in DOMAIN mesh :
              C16_Hue(mesh[k].color) >= 0 /\ C16_Hue(mesh[k].color) <= 300

\* C17: the monochrome lightness is 90 at count 0 and 10 at count 10, and the
\* lightness of every cube coloured in theme monochrome is within [10, 90].
C17_MonochromeLightnessInRange ==
    /\ getColorShader(0, "monochrome") = <<"hsl", 0, 0, 90>>
    /\ getColorShader(10, "monochrome") = <<"hsl", 0, 0, 10>>
    /\ C3_Theme = "monochrome" =>
          \A k \in DOMAIN mesh :
              C17_Lightness(mesh[k].color) >= 10 /\ C17_Lightness(mesh[k].color) <= 90

\* C18: for every intensity v in [0, 1] the shader's getThemeColor(v) selects
\* the colour getColor gives the count floor(v * 10).
C18_ShaderBandMatchesCpu ==
    applied.fn = "getThemeColor" =>
        applied.color = getColorShader(Floor(applied.value * 10), applied.theme)

\* C19: in every stepped theme the 5-colour table passed to the shader (and
\* shown by the legend) is the theme's lookup table: the entry at index k is
\* the colour of band k, for k = 0..4, in ascending order.
C19_TableIsLookupTable ==
    (applied.fn = "getThemeColor" /\ applied.theme \in C14_SteppedThemes) =>
        /\ applied.color = <<ThemeTable(applied.theme)[applied.index + 1]>>
        /\ \A c \in 0..10 :
              C14_Band(c) = applied.index =>
                  getColorShader(c, applied.theme) = applied.color

C19_HeatSecond ==
    /\ applied.fn = "getThemeColor" /\ applied.theme = "heat" /\ applied.index = 1
    /\ applied.color = <<"#ffccbc">>

C21_KnownPatternAndTheme ==
    mounted \in Viewers =>
        /\ pattern \in PatternType
        /\ indexOf(patterns, pattern) # -1
        /\ theme \in ColorTheme
        /\ animatePattern \in PatternType
        /\ lastCall # NoCall =>
              lastCall.patternType \in PatternType /\ lastCall.theme \in ColorTheme
        /\ uniforms # NoMaterial => uniforms.pattern \in 0..(Len(patterns) - 1)

C21_TickPastLastPattern ==
    /\ mounted = "HeatMap" /\ lastEvent = "interval"
    /\ lastCall.patternType = "spiral" /\ pattern = "waves"

\* C22: frame generation is deterministic: the frame generatePattern returns
\* (HeatMap, Grid of HeatMap3D) is a function of the call's pattern kind, time,
\* columns and rows alone, so two calls with identical arguments yield
\* identical counts for every cell, whatever frames were generated before and
\* whatever the rest of the component's state is.
C22_SameCallSameFrame ==
    (mounted \in {"HeatMap", "HeatMap3D"} /\ lastCall # NoCall) =>
        /\ Len(data) = lastCall.columns * lastCall.rows
        /\ \A k \in DOMAIN data :
              data[k].count = patternCount(lastCall.patternType, lastCall.time,
                                           data[k].col, data[k].row,
                                           lastCall.columns, lastCall.rows)

C22_CalledAgainAfterFrames ==
    /\ mounted = "HeatMap3D" /\ lastEvent = "effect"
    /\ lastUpdateTimeRef # 0 /\ events = MaxEvents
    /\ lastCall.patternType = "waves" /\ resolution = "medium"
    /\ lastCall.time = lastUpdateTimeRef

\* C23: the four CPU copies of the pattern formulas agree: for every pattern
\* kind, cell, grid size and time the count of HeatMap.generatePattern, of
\* InstancedCubes.generatePattern, of Grid.generatePattern and of the hybrid
\* path (the intensity PatternGenerator writes, quantised as
\* Math.floor(value * 10) by Cubes) is the same.
C23_CopiesAgree ==
    applied.fn = "Cubes" =>
        \A col \in 0..(applied.columns - 1), row \in 0..(applied.rows - 1) :
            LET count == applied.grid[col * applied.rows + row + 1].count
            IN  /\ applied.instanced[row * applied.columns + col + 1].count = count
                /\ applied.hybrid[row * applied.columns + col + 1].count = count
                /\ applied.heatMap # <<>> =>
                      applied.heatMap[col * applied.rows + row + 1].count = count

\* C24: with no manual pattern selection, consecutive auto-advance ticks step
\* through the patterns in their fixed order: no tick leaves the pattern as it
\* is and none skips a pattern, five consecutive ticks visit each of the five
\* kinds exactly once and lead back to the starting pattern; and a mounted
\* viewer has exactly one auto-advance timer, never more.
C24_FullCycle ==
    /\ intervals <= 1
    /\ mounted \in Viewers => intervals = 1
    /\ \A k \in 1..(Len(visited) - 1) :
          /\ visited[k + 1] # visited[k]
          /\ indexOf(patterns, visited[k + 1])
                = (indexOf(patterns, visited[k]) + 1) % Len(patterns)
    /\ Len(visited) > Len(patterns) =>
          /\ visited[Len(patterns) + 1] = visited[1]
          /\ {visited[k] : k \in 2..(Len(patterns) + 1)} = PatternType
          /\ \A j, k \in 2..(Len(patterns) + 1) : visited[j] = visited[k] => j = k

C24_FiveTicksFromGradient ==
    /\ mounted = "HeatMap" /\ lastEvent = "interval"
    /\ Len(visited) = Len(patterns) + 1
    /\ visited[1] = "gradient" /\ pattern = "gradient"

\* C25: in the hybrid renderer the values of every frame PatternGenerator
\* computes are applied to the cubes: once the Cubes effect has nothing left
\* to run, the instances show the counts and colours of the values in the
\* buffer of the latest frame, for every frame and not only the first.
C25_EveryFrameApplied ==
    (mounted = "HeatMapHybrid" /\ lastCall # NoCall /\ cubesDeps = CubesDepsNow) =>
        mesh = cubesEffect(dataRef, theme, CubesDepsNow.columns, CubesDepsNow.rows)

\* C26: in the hybrid renderer, after any sequence of resolution changes, the
\* buffer PatternGenerator writes and Cubes reads has exactly columns * rows
\* entries for the current resolution, and the values the Cubes effect reads
\* from it were written for the grid the effect lays out.
C26_BufferMatchesResolution ==
    mounted = "HeatMapHybrid" =>
        /\ Len(dataRef) = CubesDepsNow.columns * CubesDepsNow.rows
        /\ Len(PatternDataArray) = CubesDepsNow.columns * CubesDepsNow.rows
        /\ (lastEvent = "effect" /\ patternData = "dataRef") =>
              lastCall.columns = cubesDeps.columns /\ lastCall.rows = cubesDeps.rows

\* C27: in the 2D heat map at most one animation-frame callback is pending at
\* any time, under any interleaving of frames and pattern changes: while the
\* component is mounted it is the animate of the effect's latest run, the
\* cleanup having cancelled the request of the run before; and after the
\* unmount none is pending.
C27_OneFramePending ==
    /\ Len(pending) <= 1
    /\ mounted = "HeatMap" => pending = <<animatePattern>>
    /\ mounted = "unmounted" => pending = <<>>

C27_UnmountedAfterRestart ==
    /\ mounted = "unmounted"
    /\ animatePattern = "spiral" /\ lastCall.patternType = "spiral"
    /\ pattern = "waves"

\* C28: in the 2D heat map, after the pattern changes (by button or by timer)
\* every frame generated once the animation effect has re-run is computed
\* with the newly selected pattern, and the time continues from its previous
\* value: neither the change nor the effect's re-run sets it back, and the
\* frame is computed at the time one step later.
C28_NewPatternSameTime ==
    [][mounted = "HeatMap" =>
          /\ lastEvent' \in {"click", "interval", "effect"} => timeRef' = timeRef
          /\ (lastEvent' = "animate" /\ animatePattern = pattern) =>
                /\ lastCall'.patternType = pattern
                /\ timeRef' = timeRef + Scale \div 10
                /\ lastCall'.time = timeRef']_vars

C28_FramesAfterTick ==
    /\ mounted = "HeatMap" /\ lastEvent = "animate"
    /\ visited = <<"waves", "ripples">>
    /\ lastCall.patternType = "ripples" /\ lastCall.time = MaxTime

\* C29: in HeatMap3D the hover tooltip is only rendered for an existing cell:
\* whenever HoverInfo is shown, hoveredCube.index is an index of the current
\* data array, under any interleaving of hover updates, frame regenerations
\* and performance-mode changes that shrink the grid.
C29_TooltipForExistingCell ==
    (mounted = "HeatMap3D" /\ HoverInfo) =>
        /\ hoveredCube[1] \in 0..(Len(data) - 1)
        /\ data[hoveredCube[1] + 1].count = mesh[hoveredCube[1] + 1].count

C29_HoveredAfterShrink ==
    /\ mounted = "HeatMap3D" /\ HoverInfo
    /\ lastEvent = "hover" /\ resolution = "low"
    /\ Len(data) = CELL_COUNTS["low"][1] * CELL_COUNTS["low"][2]
    /\ hoveredCube = <<Len(data) - 1>>

\* C30: in HeatMap3D's particle system every particle index i the per-frame
\* update touches lies in [0, particlesCount) and has a velocity entry and
\* position, colour and size slots, after any sequence of performance-mode
\* changes.
C30_TouchedParticlesExist ==
    (mounted = "HeatMap3D" /\ particleSystem.mounted) =>
        /\ ~particleSystem.threw
        /\ \A i \in particleSystem.touched :
              /\ i \in 0..(particleSystem.particlesCount - 1)
              /\ i < particleSystem.velocitiesRef
              /\ i < particleSystem.positionsRef

====
